---- MODULE Spec2Model ----
(***************************************************************************)
(* Model of j2ds: RingBuffer and ElasticRingBuffer (src/src/ring.rs),      *)
(* Clock and Timer (src/src/clock.rs).                                     *)
(* A RingBuffer value is a record [buffer, read, write]; buffer is the     *)
(* boxed slice as a sequence, so Rust's buffer[i] is buffer[i + 1] here.   *)
(* Every method is an operator from the receiver (and arguments) to a      *)
(* record holding the receiver after the call, the returned value and a    *)
(* flag telling whether the call panicked (assert!, unwrap).               *)
(***************************************************************************)
EXTENDS Integers, Sequences, FiniteSets, TLC

\* ---------------------------------------------------------------- bounds
\* largest `size` given to RingBuffer::new / ElasticRingBuffer::new
MaxSize == 5
\* longest slice handed to push_back_slice / pop_front_slice
MaxSlice == 5

\* largest `size` of the buffers filled by one numbered run (20 in
\* test_elastic_downscale)
MaxRunSize == 20
\* longest numbered run pushed at once (12 in test_elastic_downscale)
MaxRun == 12

\* largest period given to Clock::new
MaxPeriod == 6
\* largest of the small values 0..MaxTime given to Timer::new and update,
\* next to 1 << 63 and u64::MAX
MaxTime == 3
\* most events one Timer is asked for
MaxEvents == 4

\* values a caller pushes; the default value is kept outside this set
ElemValues == 1..3
\* default values handed to the constructors (0u8 in the tests)
DefaultValues == {0}

\* what a caller's output slice holds before a pop: a value nobody pushes
OutFill == {9}
\* output slices a caller passes to pop_front_slice, with their prior content
OutSlices == {[i \in 1..k |-> v] : k \in 0..MaxSlice, v \in OutFill}

\* ------------------------------------------------------------ RingBuffer
\* Vec::resize(size + 1, value) followed by into_boxed_slice, read = write = 0
RingBuffer_new(size, value) ==
    [buffer |-> [i \in 1..(size + 1) |-> value], read |-> 0, write |-> 0]

\* max_len as it would be without the spare slot taken off
max_len_no_spare(rb) == Len(rb.buffer)

\* self.buffer.len() - 1
max_len(rb) == Len(rb.buffer) - 1

\* free slots, from the two cursors
capacity(rb) ==
    IF rb.read > rb.write
    THEN rb.read - rb.write - 1
    ELSE max_len(rb) - (rb.write - rb.read)

\* self.max_len() - self.capacity()
len(rb) == max_len(rb) - capacity(rb)

\* 2^64 mod m, for the `as usize` cast of a negative isize
Pow64Mod(m) ==
    LET a == 65536 % m
        b == (a * a) % m
    IN  (b * b) % m

\* the assertion of advance_index: amount.abs() < buffer.len()
advance_index_assert(rb, amount) ==
    (IF amount < 0 THEN -amount ELSE amount) < Len(rb.buffer)

\* (index as isize + amount) as usize % buffer.len(), assertion passed
advance_index(rb, index, amount) ==
    LET s == index + amount
        m == Len(rb.buffer)
    IN  IF s >= 0 THEN s % m
        ELSE (Pow64Mod(m) + m - ((-s) % m)) % m

\* push_back as it would be without the test for a full buffer
push_back_ignores_full(rb, value) ==
    IF ~advance_index_assert(rb, 1)
    THEN [rb |-> rb, ret |-> FALSE, panic |-> TRUE]
    ELSE [rb |-> [rb EXCEPT !.buffer[rb.write + 1] = value,
                            !.write = advance_index(rb, rb.write, 1)],
          ret |-> TRUE, panic |-> FALSE]

\* push_back: [rb, ret, panic]
push_back(rb, value) ==
    IF ~advance_index_assert(rb, 1)
    THEN [rb |-> rb, ret |-> FALSE, panic |-> TRUE]
    ELSE LET next_write == advance_index(rb, rb.write, 1)
         IN  IF capacity(rb) = 0
             THEN [rb |-> rb, ret |-> FALSE, panic |-> FALSE]
             ELSE [rb |-> [rb EXCEPT !.buffer[rb.write + 1] = value,
                                     !.write = next_write],
                   ret |-> TRUE, panic |-> FALSE]

\* pop_front as it would be if it read the slot after advancing the cursor
pop_front_reads_after(rb) ==
    IF len(rb) = 0
    THEN [rb |-> rb, ret |-> <<>>, panic |-> FALSE]
    ELSE IF ~advance_index_assert(rb, 1)
    THEN [rb |-> rb, ret |-> <<>>, panic |-> TRUE]
    ELSE LET new_read == advance_index(rb, rb.read, 1)
         IN  [rb |-> [rb EXCEPT !.read = new_read],
              ret |-> <<rb.buffer[new_read + 1]>>, panic |-> FALSE]

\* the value Option<T> is modelled as <<>> (None) or <<v>> (Some(v))
pop_front(rb) ==
    IF len(rb) = 0
    THEN [rb |-> rb, ret |-> <<>>, panic |-> FALSE]
    ELSE IF ~advance_index_assert(rb, 1)
    THEN [rb |-> rb, ret |-> <<>>, panic |-> TRUE]
    ELSE [rb |-> [rb EXCEPT !.read = advance_index(rb, rb.read, 1)],
          ret |-> <<rb.buffer[rb.read + 1]>>, panic |-> FALSE]

peek_front(rb) ==
    IF rb.read = rb.write
    THEN [rb |-> rb, ret |-> <<>>, panic |-> FALSE]
    ELSE [rb |-> rb, ret |-> <<rb.buffer[rb.read + 1]>>, panic |-> FALSE]

\* the loop of push_back_slice from element k on; assert!(r) on each push
RECURSIVE push_back_loop(_, _, _)
push_back_loop(rb, values, k) ==
    IF k > Len(values)
    THEN [rb |-> rb, ret |-> TRUE, panic |-> FALSE]
    ELSE LET r == push_back(rb, values[k])
         IN  IF r.panic \/ ~r.ret
             THEN [rb |-> r.rb, ret |-> FALSE, panic |-> TRUE]
             ELSE push_back_loop(r.rb, values, k + 1)

\* push_back_slice as it would be if its guard counted the spare slot as free
push_back_slice_counts_spare(rb, values) ==
    IF capacity(rb) + 1 < Len(values)
    THEN [rb |-> rb, ret |-> FALSE, panic |-> FALSE]
    ELSE push_back_loop(rb, values, 1)

push_back_slice(rb, values) ==
    IF capacity(rb) < Len(values)
    THEN [rb |-> rb, ret |-> FALSE, panic |-> FALSE]
    ELSE push_back_loop(rb, values, 1)

\* the loop of pop_front_slice from slot k on; unwrap() on each pop
RECURSIVE pop_front_loop(_, _, _)
pop_front_loop(rb, values, k) ==
    IF k > Len(values)
    THEN [rb |-> rb, values |-> values, ret |-> TRUE, panic |-> FALSE]
    ELSE LET r == pop_front(rb)
         IN  IF r.panic \/ r.ret = <<>>
             THEN [rb |-> r.rb, values |-> values, ret |-> FALSE, panic |-> TRUE]
             ELSE pop_front_loop(r.rb, [values EXCEPT ![k] = r.ret[1]], k + 1)

\* pop_front_slice as it would be if its guard let one missing element pass
pop_front_slice_off_by_one(rb, values) ==
    IF len(rb) + 1 < Len(values)
    THEN [rb |-> rb, values |-> values, ret |-> FALSE, panic |-> FALSE]
    ELSE pop_front_loop(rb, values, 1)

pop_front_slice(rb, values) ==
    IF len(rb) < Len(values)
    THEN [rb |-> rb, values |-> values, ret |-> FALSE, panic |-> FALSE]
    ELSE pop_front_loop(rb, values, 1)

\* ----------------------------------------------------- ElasticRingBuffer
\* an ElasticRingBuffer is [rb, ideal_max, default_value]
ElasticRingBuffer_new(size, value, ideal_max_len) ==
    [rb |-> RingBuffer_new(size, value),
     default_value |-> value,
     ideal_max |-> ideal_max_len]

\* the sampling loop as it would be if it spread the occupancy, not n, over
\* the output
RECURSIVE sample_loop_by_occupancy(_, _, _, _)
sample_loop_by_occupancy(rb, values, n, k) ==
    IF k > Len(values)
    THEN [values |-> values, panic |-> FALSE]
    ELSE LET amount == ((k - 1) * len(rb)) \div Len(values)
         IN  IF ~advance_index_assert(rb, amount)
             THEN [values |-> values, panic |-> TRUE]
             ELSE LET peek_index == advance_index(rb, rb.read, amount)
                  IN  sample_loop_by_occupancy(
                          rb, [values EXCEPT ![k] = rb.buffer[peek_index + 1]], n, k + 1)

\* the sampling loop of sample_n from slot k on (k is index + 1)
RECURSIVE sample_loop(_, _, _, _)
sample_loop(rb, values, n, k) ==
    IF k > Len(values)
    THEN [values |-> values, panic |-> FALSE]
    ELSE LET amount == ((k - 1) * n) \div Len(values)
         IN  IF ~advance_index_assert(rb, amount)
             THEN [values |-> values, panic |-> TRUE]
             ELSE LET peek_index == advance_index(rb, rb.read, amount)
                  IN  sample_loop(rb, [values EXCEPT ![k] = rb.buffer[peek_index + 1]],
                                  n, k + 1)

\* sample_n as it would be if n = 0 left the output as the caller passed it
sample_n_leaves_output(erb, values, n) ==
    IF n = 0
    THEN [erb |-> erb, values |-> values, ret |-> <<"Empty">>, panic |-> FALSE]
    ELSE LET s == sample_loop(erb.rb, values, n, 1)
         IN  IF s.panic \/ ~advance_index_assert(erb.rb, n)
             THEN [erb |-> erb, values |-> s.values, ret |-> <<"Panic">>, panic |-> TRUE]
             ELSE [erb |-> [erb EXCEPT !.rb.read = advance_index(erb.rb, erb.rb.read, n)],
                   values |-> s.values,
                   ret |-> IF Len(values) > n THEN <<"Upsampled", n>>
                                              ELSE <<"Downsampled", n>>,
                   panic |-> FALSE]

\* sample_n: [erb, values, ret, panic]; ret is <<tag>> or <<tag, n>>
sample_n(erb, values, n) ==
    IF n = 0
    THEN [erb |-> erb,
          values |-> [i \in 1..Len(values) |-> erb.default_value],
          ret |-> <<"Empty">>, panic |-> FALSE]
    ELSE LET s == sample_loop(erb.rb, values, n, 1)
         IN  IF s.panic
             THEN [erb |-> erb, values |-> s.values, ret |-> <<"Panic">>, panic |-> TRUE]
             ELSE IF ~advance_index_assert(erb.rb, n)
             THEN [erb |-> erb, values |-> s.values, ret |-> <<"Panic">>, panic |-> TRUE]
             ELSE [erb |-> [erb EXCEPT !.rb.read = advance_index(erb.rb, erb.rb.read, n)],
                   values |-> s.values,
                   ret |-> IF Len(values) > n THEN <<"Upsampled", n>>
                                              ELSE <<"Downsampled", n>>,
                   panic |-> FALSE]

elastic_pop_front_slice(erb, values) ==
    LET buffer_len == len(erb.rb)
        values_len == Len(values)
    IN  IF values_len <= buffer_len
        THEN IF buffer_len - values_len < erb.ideal_max
             THEN LET r == pop_front_slice(erb.rb, values)
                  IN  IF r.panic \/ ~r.ret
                      THEN [erb |-> [erb EXCEPT !.rb = r.rb], values |-> r.values,
                            ret |-> <<"Panic">>, panic |-> TRUE]
                      ELSE [erb |-> [erb EXCEPT !.rb = r.rb], values |-> r.values,
                            ret |-> <<"Exact">>, panic |-> FALSE]
             ELSE LET total_sample_size == (buffer_len - erb.ideal_max) + values_len
                  IN  sample_n(erb, values, total_sample_size)
        ELSE sample_n(erb, values, buffer_len)

elastic_push_back_slice(erb, values) ==
    LET r == push_back_slice(erb.rb, values)
    IN  [erb |-> [erb EXCEPT !.rb = r.rb], ret |-> r.ret, panic |-> r.panic]

elastic_push_back(erb, value) ==
    LET r == push_back(erb.rb, value)
    IN  [erb |-> [erb EXCEPT !.rb = r.rb], ret |-> r.ret, panic |-> r.panic]

elastic_len(erb) == len(erb.rb)

elastic_capacity(erb) == capacity(erb.rb)

elastic_max_len(erb) == max_len(erb.rb)

\* ------------------------------------------------------ src/src/clock.rs
\* A Clock is a record [count, period].  Its two u64 fields are naturals
\* here: count is at most period after every statement of tick, so the
\* only addition, count += 1, stays below 2^64 for every period.
Clock_new(period) == [count |-> 0, period |-> period]

\* tick: the record holds the clock after the call (after the increment
\* when the assertion fails), the returned bool and the panic flag
tick(c) ==
    LET count == c.count + 1
    IN  IF ~(count <= c.period)
        THEN [clock |-> [c EXCEPT !.count = count], ret |-> FALSE, panic |-> TRUE]
        ELSE IF count >= c.period
        THEN [clock |-> [c EXCEPT !.count = 0], ret |-> TRUE, panic |-> FALSE]
        ELSE [clock |-> [c EXCEPT !.count = count], ret |-> FALSE, panic |-> FALSE]

reset(c) == [c EXCEPT !.count = 0]

count(c) == c.count

period(c) == c.period

\* The fields of a Timer and the times handed to it are u64 and the timer
\* adds its period to them without end, so they keep their width: a u64 is
\* the tuple of its four 16-bit limbs, most significant first.
LimbBase == 65536

\* the u64 of a natural below LimbBase * LimbBase
U64(n) == <<0, 0, n \div LimbBase, n % LimbBase>>

\* u64::MAX and 1 << 63
U64_MAX == <<LimbBase - 1, LimbBase - 1, LimbBase - 1, LimbBase - 1>>
U64_HIGH == <<LimbBase \div 2, 0, 0, 0>>

\* a < b and a <= b on u64
U64Lt(a, b) == \E i \in 1..4 : a[i] < b[i] /\ \A j \in 1..(i - 1) : a[j] = b[j]
U64Le(a, b) == a = b \/ U64Lt(a, b)

\* a + b on u64 as u64::overflowing_add gives it: the sum modulo 2^64 and
\* whether the sum left the type
overflowing_add(a, b) ==
    LET s4 == a[4] + b[4]
        s3 == a[3] + b[3] + (s4 \div LimbBase)
        s2 == a[2] + b[2] + (s3 \div LimbBase)
        s1 == a[1] + b[1] + (s2 \div LimbBase)
    IN  [val |-> <<s1 % LimbBase, s2 % LimbBase, s3 % LimbBase, s4 % LimbBase>>,
         overflow |-> s1 \div LimbBase > 0]

\* Rust's + and += on u64: with overflow checks (the dev and test profiles)
\* an overflow panics, without them (the release profile) the sum wraps
u64_add(a, b, checks) ==
    LET r == overflowing_add(a, b)
    IN  [val |-> r.val, panic |-> checks /\ r.overflow]

\* the Timer a failed construction leaves nothing of
NoTimer == [period |-> U64(0), next_start |-> U64(0), next_stop |-> U64(0)]

\* A Timer is a record [period, next_start, next_stop] of u64.
Timer_new(p, offset, duration, checks) ==
    IF ~U64Lt(offset, p) \/ ~U64Lt(duration, p)
    THEN [timer |-> NoTimer, panic |-> TRUE]
    ELSE LET sum == u64_add(offset, duration, checks)
         IN  IF sum.panic
             THEN [timer |-> NoTimer, panic |-> TRUE]
             ELSE [timer |-> [period |-> p, next_start |-> offset,
                              next_stop |-> sum.val],
                   panic |-> FALSE]

next_start_time(t) == t.next_start

next_stop_time(t) == t.next_stop

next_event_time(t) ==
    IF U64Lt(t.next_start, t.next_stop) THEN t.next_start ELSE t.next_stop

\* the rising branch of update: next_stop += period when the two times
\* are equal, then next_start += period; a panic keeps what was assigned
update_rising(t, checks) ==
    LET stop == IF t.next_stop = t.next_start
                THEN u64_add(t.next_stop, t.period, checks)
                ELSE [val |-> t.next_stop, panic |-> FALSE]
        start == u64_add(t.next_start, t.period, checks)
    IN  IF stop.panic
        THEN [timer |-> t, ret |-> <<>>, panic |-> TRUE]
        ELSE IF start.panic
        THEN [timer |-> [t EXCEPT !.next_stop = stop.val],
              ret |-> <<>>, panic |-> TRUE]
        ELSE [timer |-> [t EXCEPT !.next_stop = stop.val,
                                  !.next_start = start.val],
              ret |-> <<"RisingEdge">>, panic |-> FALSE]

\* the falling branch of update: next_stop += period
update_falling(t, checks) ==
    LET stop == u64_add(t.next_stop, t.period, checks)
    IN  IF stop.panic
        THEN [timer |-> t, ret |-> <<>>, panic |-> TRUE]
        ELSE [timer |-> [t EXCEPT !.next_stop = stop.val],
              ret |-> <<"FallingEdge">>, panic |-> FALSE]

\* update: ret is <<>> for None and <<e>> for Some(e)
update(t, time, checks) ==
    IF U64Le(t.next_start, t.next_stop) /\ U64Le(t.next_start, time)
    THEN update_rising(t, checks)
    ELSE IF U64Le(t.next_stop, time)
    THEN update_falling(t, checks)
    ELSE [timer |-> t, ret |-> <<>>, panic |-> FALSE]

is_active(t) == U64Lt(t.next_stop, t.next_start)

\* ---------------------------------------------------------- state machine
\* kind          which type the program constructed: "ring" or "elastic"
\* rb            the RingBuffer (the field rb of an ElasticRingBuffer)
\* ideal_max, default_value   the other fields of an ElasticRingBuffer
\* size          the size given to the constructor
\* op, arg       the last call and its argument (the slice before the call)
\* out           the caller's output slice after the last call
\* ret           what the last call returned, as a tuple
\* panicked      the last call panicked; the program has stopped
\* pre           the buffer and the pending elements before the last call
\* fifo          elements accepted by a push and not yet handed out, oldest first
\* clock, timer  the Clock and the Timer of src/src/clock.rs (kind "clock",
\*               "timer")
\* overflow_checks  the build panics on integer overflow (dev, test) or wraps
\*               (release)
\* duration      the duration given to Timer::new
\* ticks         tick() calls since the last wrap, reset or construction
\* last_edge     the last event update returned, "None" before the first
\* events        how many events update has returned
\* drain         the time of the last update call and the timers that the
\*               unbroken run of update calls at that time started from
VARIABLES kind, rb, ideal_max, default_value, size, op, arg, out, ret,
          panicked, pre, fifo,
          clock, timer, overflow_checks, duration, ticks, last_edge, events,
          drain

vars == <<kind, rb, ideal_max, default_value, size, op, arg, out, ret,
          panicked, pre, fifo,
          clock, timer, overflow_checks, duration, ticks, last_edge, events,
          drain>>

\* the variables of src/src/clock.rs and what they hold in a program that
\* builds no Clock and no Timer
clock_vars == <<clock, timer, overflow_checks, duration, ticks, last_edge, events,
                drain>>

NoClock ==
    /\ clock = Clock_new(0)
    /\ timer = NoTimer
    /\ overflow_checks = TRUE
    /\ duration = U64(0)
    /\ ticks = 0
    /\ last_edge = "None"
    /\ events = 0
    /\ drain = [time |-> U64(0), seen |-> {}]

\* The producer pushes a numbered stream: each value it offers is the
\* successor, in rotation through ElemValues, of the value it pushed last.
\* The buffers never look at a value (T is only Clone), so a rotation in
\* which neighbours differ shows a reordering, a repeat or a loss.
Successor(v) == IF v \in ElemValues /\ v + 1 \in ElemValues THEN v + 1 ELSE 1

\* the value pushed last: the slot before the write cursor (the default
\* value while nothing has been pushed)
LastPushed(b) == b.buffer[((b.write + Len(b.buffer) - 1) % Len(b.buffer)) + 1]

\* the next k values of the stream after value v
RECURSIVE StreamAfter(_, _)
StreamAfter(v, k) ==
    IF k = 0 THEN <<>> ELSE <<Successor(v)>> \o StreamAfter(Successor(v), k - 1)

\* values a caller may pass to push_back on buffer b
PushValues(b) == {Successor(LastPushed(b))}

\* slices a caller may pass to push_back_slice on buffer b
PushSlices(b) == {StreamAfter(LastPushed(b), k) : k \in 0..MaxSlice}

\* the ElasticRingBuffer made of the three fields
Erb == [rb |-> rb, default_value |-> default_value, ideal_max |-> ideal_max]

RECURSIVE Drop(_, _)
Drop(s, k) == IF k = 0 \/ s = <<>> THEN s ELSE Drop(Tail(s), k - 1)

Init ==
    /\ kind \in {"ring", "elastic"}
    /\ size \in 0..MaxSize
    /\ default_value \in DefaultValues
    /\ ideal_max \in (IF kind = "ring" THEN {0} ELSE 0..size)
    /\ rb = (IF kind = "ring"
             THEN RingBuffer_new(size, default_value)
             ELSE ElasticRingBuffer_new(size, default_value, ideal_max).rb)
    /\ op = "new"
    /\ arg = <<>>
    /\ out = <<>>
    /\ ret = <<>>
    /\ panicked = FALSE
    /\ fifo = <<>>
    /\ pre = [rb |-> rb, fifo |-> <<>>]
    /\ NoClock

\* the bookkeeping every call shares
Call(name, a, o, r, p) ==
    /\ op' = name
    /\ arg' = a
    /\ out' = o
    /\ ret' = r
    /\ panicked' = p
    /\ pre' = [rb |-> rb, fifo |-> fifo]
    /\ UNCHANGED <<kind, ideal_max, default_value, size>>
    /\ UNCHANGED clock_vars

RingPushBack ==
    /\ kind = "ring" /\ ~panicked
    /\ \E v \in PushValues(rb) :
         LET r == push_back(rb, v)
         IN  /\ rb' = r.rb
             /\ fifo' = (IF r.ret THEN Append(fifo, v) ELSE fifo)
             /\ Call("push_back", <<v>>, <<>>, <<r.ret>>, r.panic)

RingPushBackSlice ==
    /\ kind = "ring" /\ ~panicked
    /\ \E values \in PushSlices(rb) :
         LET r == push_back_slice(rb, values)
         IN  /\ rb' = r.rb
             /\ fifo' = (IF r.ret THEN fifo \o values ELSE fifo)
             /\ Call("push_back_slice", values, <<>>, <<r.ret>>, r.panic)

RingPopFront ==
    /\ kind = "ring" /\ ~panicked
    /\ LET r == pop_front(rb)
       IN  /\ rb' = r.rb
           /\ fifo' = (IF r.ret # <<>> THEN Drop(fifo, 1) ELSE fifo)
           /\ Call("pop_front", <<>>, <<>>, r.ret, r.panic)

RingPeekFront ==
    /\ kind = "ring" /\ ~panicked
    /\ LET r == peek_front(rb)
       IN  /\ rb' = r.rb
           /\ fifo' = fifo
           /\ Call("peek_front", <<>>, <<>>, r.ret, r.panic)

RingPopFrontSlice ==
    /\ kind = "ring" /\ ~panicked
    /\ \E values \in OutSlices :
         LET r == pop_front_slice(rb, values)
         IN  /\ rb' = r.rb
             /\ fifo' = (IF r.ret THEN Drop(fifo, Len(values)) ELSE fifo)
             /\ Call("pop_front_slice", values, r.values, <<r.ret>>, r.panic)

ElasticPushBack ==
    /\ kind = "elastic" /\ ~panicked
    /\ \E v \in PushValues(rb) :
         LET r == elastic_push_back(Erb, v)
         IN  /\ rb' = r.erb.rb
             /\ fifo' = (IF r.ret THEN Append(fifo, v) ELSE fifo)
             /\ Call("push_back", <<v>>, <<>>, <<r.ret>>, r.panic)

ElasticPushBackSlice ==
    /\ kind = "elastic" /\ ~panicked
    /\ \E values \in PushSlices(rb) :
         LET r == elastic_push_back_slice(Erb, values)
         IN  /\ rb' = r.erb.rb
             /\ fifo' = (IF r.ret THEN fifo \o values ELSE fifo)
             /\ Call("push_back_slice", values, <<>>, <<r.ret>>, r.panic)

\* the number of elements an elastic pop took out of the queue
Consumed(values, r) ==
    IF r = <<"Exact">> THEN Len(values)
    ELSE IF r[1] \in {"Upsampled", "Downsampled"} THEN r[2]
    ELSE 0

ElasticPopFrontSlice ==
    /\ kind = "elastic" /\ ~panicked
    /\ \E values \in OutSlices :
         LET r == elastic_pop_front_slice(Erb, values)
         IN  /\ rb' = r.erb.rb
             /\ fifo' = Drop(fifo, Consumed(values, r.ret))
             /\ Call("pop_front_slice", values, r.values, r.ret, r.panic)

Next ==
    \/ RingPushBack
    \/ RingPushBackSlice
    \/ RingPopFront
    \/ RingPeekFront
    \/ RingPopFrontSlice
    \/ ElasticPushBack
    \/ ElasticPushBackSlice
    \/ ElasticPopFrontSlice

Spec == Init /\ [][Next]_vars

\* A second specification, for the sampling of long runs: an elastic buffer
\* of up to MaxRunSize slots takes one slice 1, 2, ..., k, as in
\* test_elastic_downscale, and is then popped any number of times.
InitRun ==
    /\ kind = "elastic"
    /\ size \in 0..MaxRunSize
    /\ default_value \in DefaultValues
    /\ ideal_max \in 0..size
    /\ rb = ElasticRingBuffer_new(size, default_value, ideal_max).rb
    /\ op = "new"
    /\ arg = <<>>
    /\ out = <<>>
    /\ ret = <<>>
    /\ panicked = FALSE
    /\ fifo = <<>>
    /\ pre = [rb |-> rb, fifo |-> <<>>]
    /\ NoClock

ElasticPushRun ==
    /\ kind = "elastic" /\ ~panicked
    /\ op = "new"
    /\ \E k \in 0..MaxRun :
         LET values == [i \in 1..k |-> i]
             r == elastic_push_back_slice(Erb, values)
         IN  /\ rb' = r.erb.rb
             /\ fifo' = (IF r.ret THEN fifo \o values ELSE fifo)
             /\ Call("push_back_slice", values, <<>>, <<r.ret>>, r.panic)

NextRun ==
    \/ ElasticPushRun
    \/ ElasticPopFrontSlice

SpecRun == InitRun /\ [][NextRun]_vars

\* A third specification, for src/src/clock.rs: the program builds one
\* Clock or one Timer and calls its methods in any order.
ClockPeriods == 0..MaxPeriod

\* the u64 values given to Timer::new and to update
TimerValues == {U64(n) : n \in 0..MaxTime} \cup {U64_HIGH, U64_MAX}

InitClock ==
    /\ kind \in {"clock", "timer"}
    /\ size = 0
    /\ default_value = 0
    /\ ideal_max = 0
    /\ rb = RingBuffer_new(0, 0)
    /\ out = <<>>
    /\ fifo = <<>>
    /\ op = "new"
    /\ ret = <<>>
    /\ IF kind = "clock"
       THEN \E p \in ClockPeriods :
               /\ clock = Clock_new(p)
               /\ arg = <<p>>
               /\ timer = NoTimer
               /\ overflow_checks = TRUE
               /\ duration = U64(0)
               /\ panicked = FALSE
       ELSE \E p \in TimerValues, offset \in TimerValues, d \in TimerValues,
               checks \in BOOLEAN :
               LET r == Timer_new(p, offset, d, checks)
               IN  /\ timer = r.timer
                   /\ panicked = r.panic
                   /\ arg = <<p, offset, d>>
                   /\ duration = d
                   /\ overflow_checks = checks
                   /\ clock = Clock_new(0)
    /\ ticks = 0
    /\ last_edge = "None"
    /\ events = 0
    /\ drain = [time |-> U64(0), seen |-> {}]
    /\ pre = [clock |-> clock, timer |-> timer, ticks |-> 0, last_edge |-> "None"]

\* the bookkeeping every call on a Clock or a Timer shares
CallClock(name, a, r, p) ==
    /\ op' = name
    /\ arg' = a
    /\ ret' = r
    /\ panicked' = p
    /\ pre' = [clock |-> clock, timer |-> timer, ticks |-> ticks,
               last_edge |-> last_edge]
    /\ UNCHANGED <<kind, rb, ideal_max, default_value, size, out, fifo,
                   overflow_checks, duration>>

ClockTick ==
    /\ kind = "clock" /\ ~panicked
    /\ LET r == tick(clock)
       IN  /\ clock' = r.clock
           /\ ticks' = (IF r.ret THEN 0 ELSE ticks + 1)
           /\ CallClock("tick", <<>>, IF r.panic THEN <<>> ELSE <<r.ret>>, r.panic)
    /\ UNCHANGED <<timer, last_edge, events, drain>>

ClockReset ==
    /\ kind = "clock" /\ ~panicked
    /\ clock' = reset(clock)
    /\ ticks' = 0
    /\ CallClock("reset", <<>>, <<>>, FALSE)
    /\ UNCHANGED <<timer, last_edge, events, drain>>

TimerUpdate ==
    /\ kind = "timer" /\ ~panicked
    /\ events < MaxEvents
    /\ \E time \in TimerValues :
         LET r == update(timer, time, overflow_checks)
         IN  /\ timer' = r.timer
             /\ last_edge' = (IF r.ret # <<>> THEN r.ret[1] ELSE last_edge)
             /\ events' = (IF r.ret # <<>> THEN events + 1 ELSE events)
             /\ drain' = [time |-> time,
                          seen |-> IF op = "update" /\ drain.time = time
                                   THEN drain.seen \cup {timer}
                                   ELSE {timer}]
             /\ CallClock("update", <<time>>, r.ret, r.panic)
    /\ UNCHANGED <<clock, ticks>>

NextClock ==
    \/ ClockTick
    \/ ClockReset
    \/ TimerUpdate

SpecClock == InitClock /\ [][NextClock]_vars

TypeOK ==
    /\ kind \in {"ring", "elastic", "clock", "timer"}
    /\ clock.count \in Nat /\ clock.period \in Nat
    /\ \A f \in {"period", "next_start", "next_stop"} :
          timer[f] \in [1..4 -> 0..(LimbBase - 1)]
    /\ rb.read \in 0..size
    /\ rb.write \in 0..size
    /\ Len(rb.buffer) = size + 1

\* ------------------------------------------------- notions the claims use
\* the last call was ElasticRingBuffer::pop_front_slice
ElasticPopped == kind = "elastic" /\ op = "pop_front_slice"

\* the last call was RingBuffer::pop_front_slice
RingSlicePopped == kind = "ring" /\ op = "pop_front_slice"

\* the backing-store element at offset k from the read cursor of buffer b
AtOffset(b, k) == b.buffer[((b.read + k) % Len(b.buffer)) + 1]

\* occupancy as the spec defines it: (write - read) mod backing-store length
Occupancy(b) == (b.write - b.read + Len(b.buffer)) % Len(b.buffer)

\* the slot of a caller's output slice still holds what the caller put there
Untouched(i) == out[i] \in OutFill

ElasticTags == {"Empty", "Exact", "Upsampled", "Downsampled"}

\* ------------------------------------------------------------------- C1
\* C1: an elastic pop_front_slice never fails: it trips no assertion, writes
\* every slot of the output and returns Empty, Exact, Upsampled(n) or
\* Downsampled(n).
C1_ElasticPopNeverFails ==
    ElasticPopped =>
        /\ ~panicked
        /\ ret[1] \in ElasticTags
        /\ Len(out) = Len(arg)
        /\ \A i \in 1..Len(out) : ~Untouched(i)

\* ------------------------------------------------------------------- C2
\* C2: a RingBuffer is a bounded FIFO queue: what a successful pop_front or
\* pop_front_slice delivers is the oldest accepted and undelivered values,
\* in push order, so the delivered values form a prefix of the accepted ones.
C2_RingFifo ==
    kind = "ring" =>
        /\ (op = "pop_front" /\ ret # <<>>) =>
               /\ pre.fifo # <<>>
               /\ ret[1] = Head(pre.fifo)
        /\ (op = "pop_front_slice" /\ ret = <<TRUE>>) =>
               /\ Len(arg) <= Len(pre.fifo)
               /\ out = SubSeq(pre.fifo, 1, Len(arg))
        /\ Len(fifo) = len(rb)
        /\ \A k \in 1..Len(fifo) : fifo[k] = AtOffset(rb, k - 1)

\* a slice pop that crossed the end of the backing store and delivered two
\* different values
C2_Witness ==
    /\ RingSlicePopped /\ ret = <<TRUE>>
    /\ rb.read < pre.rb.read
    /\ Len(out) >= 2 /\ out[1] # out[2]

\* ------------------------------------------------------------------- C3
\* C3: when an elastic pop returns Upsampled(n) or Downsampled(n), the read
\* cursor has advanced by n modulo the backing-store length, len() has
\* decreased by n, and n is at most the occupancy before the call.
C3_SampledConsumesN ==
    (ElasticPopped /\ ~panicked /\ ret[1] \in {"Upsampled", "Downsampled"}) =>
        /\ rb.read = (pre.rb.read + ret[2]) % Len(rb.buffer)
        /\ len(rb) = len(pre.rb) - ret[2]
        /\ ret[2] <= len(pre.rb)

\* ------------------------------------------------------------------- C4
\* C4: when an elastic pop returns Downsampled(n), len() after the call is
\* at most ideal_max.
C4_DownsampledReachesIdeal ==
    (ElasticPopped /\ ~panicked /\ ret[1] = "Downsampled") =>
        len(rb) <= ideal_max

\* ------------------------------------------------------------------- C5
\* C5: for every capacity c >= 0, push_back on a RingBuffer holding c
\* elements returns false without aborting and changes nothing.
C5_PushOnFullFails ==
    (kind = "ring" /\ op = "push_back" /\ len(pre.rb) = size) =>
        /\ ~panicked
        /\ ret = <<FALSE>>
        /\ rb = pre.rb

\* ------------------------------------------------------------------- C6
\* push_back on each element of values from element k on, in order; ok tells
\* whether every one of them returned true without panicking
RECURSIVE PushEach(_, _, _)
PushEach(b, values, k) ==
    IF k > Len(values)
    THEN [rb |-> b, ok |-> TRUE]
    ELSE LET r == push_back(b, values[k])
         IN  IF r.panic \/ ~r.ret
             THEN [rb |-> r.rb, ok |-> FALSE]
             ELSE PushEach(r.rb, values, k + 1)

\* C6: push_back_slice, on a RingBuffer and on an ElasticRingBuffer, is all
\* or nothing: a slice longer than capacity() is refused and nothing changes;
\* any other slice is accepted, and the buffer ends as after push_back on
\* each element in order, every one of which succeeds.
C6_PushSliceAllOrNothing ==
    op = "push_back_slice" =>
        IF Len(arg) > capacity(pre.rb)
        THEN /\ ~panicked
             /\ ret = <<FALSE>>
             /\ rb = pre.rb
        ELSE /\ ~panicked
             /\ ret = <<TRUE>>
             /\ PushEach(pre.rb, arg, 1).ok
             /\ rb = PushEach(pre.rb, arg, 1).rb
             /\ rb.read = pre.rb.read
             /\ rb.write = (pre.rb.write + Len(arg)) % Len(rb.buffer)
             /\ \A i \in 1..Len(arg) :
                    rb.buffer[((pre.rb.write + i - 1) % Len(rb.buffer)) + 1] = arg[i]

\* a slice that exactly fills the free room of a buffer already holding
\* elements, written across the end of the backing store
C6_Witness ==
    /\ op = "push_back_slice" /\ ret = <<TRUE>>
    /\ Len(arg) >= 2
    /\ Len(arg) = capacity(pre.rb)
    /\ len(pre.rb) > 0
    /\ rb.write < pre.rb.write

\* ------------------------------------------------------------------- C7
\* C7: RingBuffer::pop_front_slice is all or nothing: with fewer than
\* out.len() elements stored it returns false and leaves the output and both
\* cursors alone; otherwise it returns true, out[i] is the i-th oldest
\* element, read advances by out.len() modulo the backing-store length and
\* write stays.
C7_PopSliceAllOrNothing ==
    RingSlicePopped =>
        IF len(pre.rb) < Len(arg)
        THEN /\ ~panicked
             /\ ret = <<FALSE>>
             /\ out = arg
             /\ rb = pre.rb
        ELSE /\ ~panicked
             /\ ret = <<TRUE>>
             /\ Len(out) = Len(arg)
             /\ \A i \in 1..Len(out) :
                    /\ out[i] = pre.fifo[i]
                    /\ out[i] = AtOffset(pre.rb, i - 1)
             /\ rb.read = (pre.rb.read + Len(arg)) % Len(rb.buffer)
             /\ rb.write = pre.rb.write
             /\ rb.buffer = pre.rb.buffer

\* a slice pop refused although the buffer holds elements
C7_Witness ==
    /\ RingSlicePopped /\ ret = <<FALSE>>
    /\ len(pre.rb) > 0
    /\ Len(arg) = len(pre.rb) + 1

\* ------------------------------------------------------------------- C8
\* C8: after every operation len() + capacity() = max_len(), neither len()
\* nor capacity() leaves 0..max_len() (no usize subtraction underflows), and
\* max_len() is the size given at construction.
C8_LenPlusCapacity ==
    /\ len(rb) + capacity(rb) = max_len(rb)
    /\ capacity(rb) \in 0..max_len(rb)
    /\ len(rb) \in 0..max_len(rb)
    /\ max_len(rb) = size

\* after an elastic pop that left elements, stored across the end of the
\* backing store
C8_Witness ==
    /\ ElasticPopped /\ ~panicked
    /\ rb.read > rb.write
    /\ len(rb) > 0
    /\ capacity(rb) > 0

\* ------------------------------------------------------------------- C9
\* C9: an elastic pop with out.len() <= len() and len() - out.len() <
\* ideal_max returns Exact, the output is the out.len() oldest elements in
\* FIFO order (what RingBuffer::pop_front_slice gives), occupancy decreases
\* by out.len() and ends below ideal_max.
C9_ExactPop ==
    (ElasticPopped /\ Len(arg) <= len(pre.rb)
                   /\ len(pre.rb) - Len(arg) < ideal_max) =>
        /\ ~panicked
        /\ ret = <<"Exact">>
        /\ out = pop_front_slice(pre.rb, arg).values
        /\ len(rb) = len(pre.rb) - Len(arg)
        /\ len(rb) < ideal_max
        /\ Len(arg) <= Len(pre.fifo)
        /\ out = SubSeq(pre.fifo, 1, Len(arg))

\* ------------------------------------------------------------------ C10
\* the FIFO offset sample_n reads for output slot i (1-based) of total slots
SampleOffset(i, n, total) == ((i - 1) * n) \div total

\* C10: an elastic pop with out.len() > len() > 0 returns Upsampled(len()),
\* out[i] is the stored element at FIFO offset floor(i * len() / out.len()),
\* every stored element appears in the output, and the buffer ends empty.
C10_Upsample ==
    (ElasticPopped /\ Len(arg) > len(pre.rb) /\ len(pre.rb) > 0) =>
        /\ ~panicked
        /\ ret = <<"Upsampled", len(pre.rb)>>
        /\ len(rb) = 0
        /\ rb.read = rb.write
        /\ Len(pre.fifo) = len(pre.rb)
        /\ \A i \in 1..Len(out) :
               out[i] = pre.fifo[SampleOffset(i, len(pre.rb), Len(out)) + 1]
        /\ \A k \in 1..Len(pre.fifo) :
               \E i \in 1..Len(out) : SampleOffset(i, len(pre.rb), Len(out)) = k - 1

\* ------------------------------------------------------------------ C11
\* the branch of pop_front_slice that samples with total_sample_size
DownsampleCase ==
    /\ ElasticPopped
    /\ Len(arg) <= len(pre.rb)
    /\ len(pre.rb) - Len(arg) >= ideal_max

\* C11: an elastic pop with out.len() <= len() and len() - out.len() >=
\* ideal_max returns Downsampled(n), n = (len() - ideal_max) + out.len(), and
\* out[i] is the element at offset floor(i * n / out.len()) from the read
\* cursor, a mapping that does not decrease with i and stays inside [0, n).
C11_Downsample ==
    DownsampleCase =>
        LET n == (len(pre.rb) - ideal_max) + Len(arg)
        IN  /\ ~panicked
            /\ ret = <<"Downsampled", n>>
            /\ Len(out) = Len(arg)
            /\ \A i \in 1..Len(out) :
                   /\ out[i] = AtOffset(pre.rb, SampleOffset(i, n, Len(out)))
                   /\ SampleOffset(i, n, Len(out)) \in 0..(n - 1)
                   /\ i > 1 => SampleOffset(i - 1, n, Len(out))
                                   <= SampleOffset(i, n, Len(out))

\* ------------------------------------------------------------------ C12
\* the case of test_elastic_downscale: 1..12 in a buffer of size 20 with
\* ideal_max 8, popped into 4 slots
DownscaleExample ==
    /\ ElasticPopped
    /\ size = 20 /\ ideal_max = 8
    /\ pre.fifo = [i \in 1..12 |-> i]
    /\ len(pre.rb) = 12
    /\ Len(arg) = 4

\* C12 as the spec states it: a downsampling pop samples at stride
\* (occupancy before the call) / out.len() from the read cursor; the example
\* has stride 12 / 4 = 3 and gives [1, 4, 7, 10].
C12_StrideIsOccupancy ==
    /\ (ElasticPopped /\ ~panicked /\ ret[1] = "Downsampled") =>
           \A i \in 1..Len(out) :
               out[i] = AtOffset(pre.rb, SampleOffset(i, len(pre.rb), Len(out)))
    /\ DownscaleExample => out = <<1, 4, 7, 10>>

\* C12, amended: a pop that returns Downsampled(n) samples at stride
\* n / out.len() from the read cursor, with n = (occupancy before the call -
\* ideal_max) + out.len(); the example has stride 8 / 4 = 2 and gives
\* [1, 3, 5, 7].
C12_StrideIsSampleSize ==
    /\ (ElasticPopped /\ ~panicked /\ ret[1] = "Downsampled") =>
           /\ ret[2] = (len(pre.rb) - ideal_max) + Len(arg)
           /\ \A i \in 1..Len(out) :
                  out[i] = AtOffset(pre.rb, SampleOffset(i, ret[2], Len(out)))
    /\ DownscaleExample => (ret = <<"Downsampled", 8>> /\ out = <<1, 3, 5, 7>>)

\* the example of test_elastic_downscale has run
C12_Witness ==
    /\ DownscaleExample
    /\ out = <<1, 3, 5, 7>>
    /\ len(rb) = 4

\* ------------------------------------------------------------------ C13
\* C13: an elastic pop returns Empty only if the occupancy before the call
\* was 0, whatever the output length and ideal_max.
C13_EmptyOnlyWhenEmpty ==
    (ElasticPopped /\ ret = <<"Empty">>) => len(pre.rb) = 0

\* ------------------------------------------------------------------ C14
\* C14 as the spec states it: with occupancy 0 an elastic pop of any output
\* length, 0 included, fills the output with the default value, returns
\* Empty and leaves both cursors alone.
C14_EmptyBufferGivesEmpty ==
    (ElasticPopped /\ len(pre.rb) = 0) =>
        /\ ~panicked
        /\ ret = <<"Empty">>
        /\ out = [i \in 1..Len(arg) |-> default_value]
        /\ rb.read = pre.rb.read
        /\ rb.write = pre.rb.write

\* C14, amended: with occupancy 0 an elastic pop leaves both cursors alone
\* and fills the output with the default value; it returns Empty, except
\* that an output of length 0 with ideal_max > 0 returns Exact.
C14_EmptyBufferGivesDefault ==
    (ElasticPopped /\ len(pre.rb) = 0) =>
        /\ ~panicked
        /\ ret = (IF Len(arg) = 0 /\ ideal_max > 0 THEN <<"Exact">> ELSE <<"Empty">>)
        /\ out = [i \in 1..Len(arg) |-> default_value]
        /\ rb.read = pre.rb.read
        /\ rb.write = pre.rb.write

\* a buffer that was filled and drained, its slots still holding old values,
\* popped into two or more slots
C14_Witness ==
    /\ ElasticPopped /\ len(pre.rb) = 0
    /\ ret = <<"Empty">>
    /\ Len(out) >= 2
    /\ AtOffset(pre.rb, 0) \in ElemValues

\* ------------------------------------------------------------------ C18
\* C18: with out.len() <= len(), a pop with len() - out.len() = ideal_max
\* returns Downsampled and one with len() - out.len() = ideal_max - 1 returns
\* Exact; a sampled pop is tagged Upsampled(n) exactly when out.len() > n > 0
\* and Downsampled(n) exactly when out.len() <= n and n > 0.
C18_StrictBoundary ==
    ElasticPopped =>
        /\ (Len(arg) <= len(pre.rb) /\ len(pre.rb) - Len(arg) = ideal_max) =>
               (~panicked /\ ret[1] = "Downsampled")
        /\ (Len(arg) <= len(pre.rb) /\ len(pre.rb) - Len(arg) = ideal_max - 1) =>
               (~panicked /\ ret = <<"Exact">>)
        /\ ret[1] = "Upsampled" => (Len(arg) > ret[2] /\ ret[2] > 0)
        /\ ret[1] = "Downsampled" => (Len(arg) <= ret[2] /\ ret[2] > 0)

\* ------------------------------------------------------------------ C19
\* C19: in every reachable state of a buffer of capacity c, read and write
\* lie in 0..c, len() is (write - read) mod (c + 1) and at most c, the buffer
\* is empty exactly when read = write, and no push moves the write cursor
\* onto the read cursor.
C19_CursorInvariant ==
    /\ rb.read \in 0..size
    /\ rb.write \in 0..size
    /\ Len(rb.buffer) = size + 1
    /\ len(rb) = Occupancy(rb)
    /\ len(rb) <= size
    /\ (len(rb) = 0) <=> (rb.read = rb.write)
    /\ (op \in {"push_back", "push_back_slice"} /\ rb.write # pre.rb.write) =>
           rb.write # rb.read

\* a push that fills the buffer, the write cursor ending just behind the
\* read cursor after wrapping round
C19_Witness ==
    /\ op = "push_back" /\ ret = <<TRUE>>
    /\ len(rb) = size
    /\ size >= 2
    /\ rb.write + 1 = rb.read

\* ------------------------------------------------------------------ C20
\* C20: when an elastic pop returns anything but Empty, every value written
\* is an element pushed and not yet consumed (every offset read is below the
\* occupancy before the call) and the read cursor does not pass the write
\* cursor.
C20_OnlyPendingElements ==
    (ElasticPopped /\ ~panicked /\ ret[1] # "Empty") =>
        /\ Consumed(arg, ret) <= Len(pre.fifo)
        /\ Consumed(arg, ret) <= len(pre.rb)
        /\ \A i \in 1..Len(out) :
               LET k == IF ret = <<"Exact">> THEN i - 1
                        ELSE SampleOffset(i, ret[2], Len(out))
               IN  /\ k < Len(pre.fifo)
                   /\ out[i] = pre.fifo[k + 1]

\* ------------------------------------------------ claims on clock.rs
\* the program built a Timer: Timer::new returned
TimerBuilt == kind = "timer" /\ ~(op = "new" /\ panicked)

\* the last call was Timer::update and it returned
TimerUpdated == kind = "timer" /\ op = "update" /\ ~panicked

\* C15: for a Timer built with duration > 0 every update call returns,
\* the events returned alternate RisingEdge, FallingEdge, ... from a
\* RisingEdge on, and is_active() is true exactly when the last event was a
\* RisingEdge; for a Timer built with duration 0 every event is a
\* RisingEdge and is_active() is never true.
C15_EdgesAlternate ==
    TimerBuilt =>
        /\ ~panicked
        /\ duration # U64(0) =>
              /\ (TimerUpdated /\ ret # <<>>) =>
                    ret[1] = (IF pre.last_edge = "RisingEdge"
                              THEN "FallingEdge" ELSE "RisingEdge")
              /\ is_active(timer) <=> (last_edge = "RisingEdge")
        /\ duration = U64(0) =>
              /\ (TimerUpdated /\ ret # <<>>) => ret[1] = "RisingEdge"
              /\ ~is_active(timer)

\* C16: update(t) returns; it returns an event exactly when
\* next_event_time() <= t before the call; a None leaves the timer as it
\* was, with next_event_time() > t; and the drain loop
\* `while let Some(e) = timer.update(t)` ends: update is a function of the
\* timer and t, so the loop runs for ever once an event brings the timer
\* back to a state an earlier round of the loop started from.
C16_DrainTerminates ==
    (kind = "timer" /\ op = "update") =>
        /\ ~panicked
        /\ (ret # <<>>) <=> U64Le(next_event_time(pre.timer), arg[1])
        /\ ret = <<>> =>
              /\ timer = pre.timer
              /\ U64Lt(arg[1], next_event_time(timer))
        /\ ret # <<>> => timer \notin drain.seen

\* C17: count() stays in [0, period - 1], the assertion of tick never
\* fails, and tick() returns true exactly on the period-th tick since the
\* last wrap or reset, leaving count() at 0, and otherwise adds 1 to it.
C17_ClockCount ==
    kind = "clock" =>
        /\ count(clock) \in 0..(period(clock) - 1)
        /\ ~panicked
        /\ op = "tick" =>
              /\ ret[1] <=> (pre.ticks + 1 = period(clock))
              /\ count(clock) = (IF ret[1] THEN 0 ELSE count(pre.clock) + 1)

====
